---- MODULE Spec2Model ----
(***************************************************************************)
(* basecode-lsp: the prefix-trie word index (src/src/trie.rs), the token   *)
(* extractor (src/src/basecode_lsp/util.rs) and the document               *)
(* synchronisation handlers of the language server                         *)
(* (src/src/basecode_lsp/backend.rs).                                      *)
(*                                                                         *)
(* A character is a one-character string.  A word, a token and a text are  *)
(* sequences of characters.  A trie is a function from node paths to       *)
(* word_count: the node reached from the root by the characters of p is    *)
(* the element p of the domain, the root is <<>>, and the children map of  *)
(* node p holds the characters c with Append(p, c) in the domain.  Every   *)
(* node is owned by its parent, so a path names exactly one node.          *)
(***************************************************************************)
EXTENDS Integers, Sequences, FiniteSets, TLC

VARIABLES
    trie,          \* Backend.trie / Trie.root: node path -> word_count
    documents,     \* Backend.documents: uri -> stored content
    min_word_len,  \* LspArgs.min_word_len
    last,          \* history: the last call and its arguments
    before,        \* history: the trie as it was before the last Trie call
    calls,         \* history: per word, the insert and remove calls made on the Trie
    line,          \* the text handed to the functions of util.rs
    result,        \* the last call of a function of util.rs or of completion
    locks,         \* the Mutexes of Backend: the task that holds each
    tasks,         \* the handlers in progress: what each task has left to do
    hist           \* history of the lock acquisitions and trie accesses

\* the variables of the calls of util.rs and of completion
utilVars == <<line, result>>

\* the variables of the handlers running as concurrent tasks
taskVars == <<locks, tasks, hist>>

vars == <<trie, documents, min_word_len, last, before, calls, utilVars, taskVars>>

----------------------------------------------------------------------------
(* Bounds and input sets *)

\* Trie calls made in one behaviour of SpecTrie.
MaxCalls == 5

\* Fragments carried by one did_change.
MaxFrags == 2

\* Total of the word counts the index may hold (did_change can leak counts).
MaxIndexed == 5

I32Max == 2147483647

I32Min == -I32Max - 1

Alphabetic == {"a", "b", "c"}

Digit10 == {"1", "2", "3", "4"}

\* A numeric character that is no decimal digit: char::is_alphanumeric holds
\* of it, char::is_digit(10) does not.
OtherNumeric == {"²"}

Whitespace == {" ", "\n"}

Punct == {".", "("}

Chars == Alphabetic \cup Digit10 \cup OtherNumeric \cup {"_"} \cup Whitespace \cup Punct

\* The words given to Trie::insert and Trie::remove in SpecTrie: the empty
\* word, a chain of prefixes, siblings and an unrelated word.
Words ==
    { <<>>, <<"a">>, <<"a", "b">>, <<"a", "b", "c">>, <<"a", "c">>, <<"b">> }

DocIds == {"file:///d1", "file:///d2"}

\* The texts the client sends: empty, a repeated word, punctuation inside a
\* whitespace-separated piece, and a text with no acceptable token.
Texts ==
    { <<>>,
      <<"a", "b", " ", "a", "b">>,
      <<"a", " ", "a", "b", ".", "a", "b", "c">>,
      <<"1", "2", " ", "3", "a">> }

\* LspArgs.min_word_len: default_value_t
DefaultMinWordLen == 2

MinWordLens == {1, DefaultMinWordLen}

\* The prefixes asked of suggest_completions: every word, and prefixes that
\* lead to no node.
Queries == Words \cup { <<"c">>, <<"b", "a">>, <<"a", "b", "c", "a">> }

FragLists == UNION { [1..n -> Texts] : n \in 0..MaxFrags }

\* The words of SpecCount and their counts in its first state.
CountWords == { <<"a">>, <<"a", "b">> }

CountValues == {0, 1, I32Max - 1, I32Max}

\* Length of a line given to the functions of util.rs.
MaxLineLen == 4

\* Largest min_len given to is_token and process_token.
MaxMinLen == 3

\* The characters of those lines: a letter, a decimal digit, another numeric
\* character, the underscore, a whitespace and a punctuation character.
LineChars == {"a", "1", "²", "_", " ", "."}

Lines == UNION { [1..n -> LineChars] : n \in 0..MaxLineLen }

MinLens == 0..MaxMinLen

\* Position.character is a u32: the value v is the record [hi, low] with
\* v = hi * 2^31 + low.  The columns of a request: 0, inside the line, beyond
\* its end, the largest i32, and values of 2^31 and more.
Characters ==
    { [hi |-> 0, low |-> n] : n \in 0..(MaxLineLen + 1) }
        \cup { [hi |-> 0, low |-> I32Max], [hi |-> 1, low |-> 0],
               [hi |-> 1, low |-> I32Max - 1], [hi |-> 1, low |-> I32Max] }

\* The texts of the documents a completion is asked in: two of Texts and a
\* text of two lines.
QueryTexts ==
    { <<"a", "b", " ", "a", "b">>,
      <<"a", " ", "a", "b", ".", "a", "b", "c">>,
      <<"a", "b", "\n", "a", "b", "c">> }

\* The tasks that run handlers at the same time.
Tasks == {"t1", "t2"}

\* Requests and notifications handled in one behaviour of SpecTasks.
MaxRequests == 3

\* Requests and notifications handled in one behaviour of FairSpecTasks.
MaxFairRequests == 3

\* The texts of the documents of SpecTasks: one word, and two words.
TaskTexts == { <<"a", "b">>, <<"a", "b", " ", "a", "c">> }

\* Fragments carried by one did_change of SpecTasks.
MaxTaskFrags == 1

TaskFragLists == UNION { [1..n -> TaskTexts] : n \in 0..MaxTaskFrags }

TaskDocIds == {"file:///d1"}

\* Position.character of a completion request of SpecTasks.
TaskColumns == {1, 2}

\* The inputs of FairSpecTasks: a text of two words for did_open, no
\* fragment or a fragment of one word for did_change, a column inside the
\* first word for completion.
FairTexts == { <<"a", "b", " ", "a", "c">> }

FairFragLists == { <<>>, << <<"a", "b">> >> }

FairColumns == {2}

\* Position.line of a completion request.
MaxLineNumber == 2

LineNumbers == 0..MaxLineNumber

\* Position.character of a completion request: 0 to MaxColumn, and 2^31.
MaxColumn == 3

QueryCharacters ==
    { [hi |-> 0, low |-> n] : n \in 0..MaxColumn } \cup { [hi |-> 1, low |-> 0] }

----------------------------------------------------------------------------
(* trie.rs *)

IsPrefix(p, w) == Len(p) <= Len(w) /\ SubSeq(w, 1, Len(p)) = p

Max(a, b) == IF a >= b THEN a ELSE b

\* Trie::new
TrieNew == [p \in {<<>>} |-> 0]

\* node.children.keys()
Children(t, node) == { c \in Chars : Append(node, c) \in DOMAIN t }

\* faulty variant: no node is ever reported empty, so nothing is pruned
IsEmptyNodeNever(t, node) == FALSE

\* faulty variant: the children of the node are not looked at
IsEmptyNodeCountOnly(t, node) == t[node] = 0

\* node.children.is_empty() && node.word_count == 0
IsEmptyNode(t, node) == Children(t, node) = {} /\ t[node] = 0

\* word_count += 1 on an i32 (two's complement wrap of a release build)
IncCount(c) == IF c = I32Max THEN I32Min ELSE c + 1

\* faulty variant: a remove forgets every insert of the word
DecCountToZero(c) == 0

\* faulty variant: the decrement has no floor
DecCountNoFloor(c) == c - 1

\* max(word_count - 1, 0) on an i32 (two's complement wrap of a release
\* build for the count that a wrapped insert leaves)
DecCount(c) == Max(IF c = I32Min THEN I32Max ELSE c - 1, 0)

\* faulty variant: every node on the path of the word is counted
InsertAlongPath(t, word) ==
    LET path == { SubSeq(word, 1, i) : i \in 0..Len(word) }
    IN  [p \in DOMAIN t \cup path |->
            IF p \in path \ {<<>>}
            THEN IncCount(IF p \in DOMAIN t THEN t[p] ELSE 0)
            ELSE t[p]]

\* Trie::insert
Insert(t, word) ==
    LET path == { SubSeq(word, 1, i) : i \in 0..Len(word) }
        t1 == [p \in DOMAIN t \cup path |-> IF p \in DOMAIN t THEN t[p] ELSE 0]
    IN  [t1 EXCEPT ![word] = IncCount(@)]

\* faulty variant: the emptied child stays in the children map
RemoveChildKeep(t, child) == t

\* node.children.remove(&char): the child and all it owns are dropped
RemoveChild(t, child) == [p \in { q \in DOMAIN t : ~IsPrefix(child, q) } |-> t[p]]

RECURSIVE RemoveHelper(_, _, _)
\* faulty variant: the deletion of a child is not propagated to the parent
RemoveHelperNoPropagate(t, word, index) ==
    LET node == SubSeq(word, 1, index) IN
    IF index = Len(word)
    THEN LET t1 == [t EXCEPT ![node] = DecCount(@)]
         IN  [trie |-> t1, del |-> IsEmptyNode(t1, node)]
    ELSE LET child == Append(node, word[index + 1]) IN
         IF child \in DOMAIN t
         THEN LET r == RemoveHelper(t, word, index + 1) IN
              IF r.del
              THEN [trie |-> RemoveChild(r.trie, child), del |-> FALSE]
              ELSE [trie |-> r.trie, del |-> FALSE]
         ELSE [trie |-> t, del |-> FALSE]

\* Trie::remove_helper: the trie after the call and the returned flag
RemoveHelper(t, word, index) ==
    LET node == SubSeq(word, 1, index) IN
    IF index = Len(word)
    THEN LET t1 == [t EXCEPT ![node] = DecCount(@)]
         IN  [trie |-> t1, del |-> IsEmptyNode(t1, node)]
    ELSE LET child == Append(node, word[index + 1]) IN
         IF child \in DOMAIN t
         THEN LET r == RemoveHelper(t, word, index + 1) IN
              IF r.del
              THEN LET t2 == RemoveChild(r.trie, child)
                   IN  [trie |-> t2, del |-> IsEmptyNode(t2, node)]
              ELSE [trie |-> r.trie, del |-> FALSE]
         ELSE [trie |-> t, del |-> FALSE]

\* Trie::remove
Remove(t, word) == RemoveHelper(t, word, 0).trie

RECURSIVE CollectChildren(_, _, _)
RECURSIVE CollectWords(_, _)
\* the for loop of collect_words over the children not yet visited; HashMap
\* iteration order is unspecified, CHOOSE picks one
CollectChildren(t, word, todo) ==
    IF todo = {} THEN <<>>
    ELSE LET c == CHOOSE x \in todo : TRUE
         IN  CollectWords(t, Append(word, c)) \o CollectChildren(t, word, todo \ {c})

\* faulty variant: every visited node is emitted, whatever its count
CollectWordsAnyCount(t, word) ==
    (IF t[word] >= 0 THEN <<word>> ELSE <<>>)
        \o CollectChildren(t, word, Children(t, word))

\* faulty variant: a word is emitted once per insert that is still counted
CollectWordsPerCount(t, word) ==
    [k \in 1..Max(t[word], 0) |-> word]
        \o CollectChildren(t, word, Children(t, word))

\* Trie::collect_words
CollectWords(t, word) ==
    (IF t[word] > 0 THEN <<word>> ELSE <<>>)
        \o CollectChildren(t, word, Children(t, word))

RECURSIVE SuggestCompletionsHelper(_, _, _)
\* Trie::suggest_completions_helper
SuggestCompletionsHelper(t, prefix, index) ==
    LET node == SubSeq(prefix, 1, index) IN
    IF index = Len(prefix)
    THEN CollectWords(t, prefix)
    ELSE IF Append(node, prefix[index + 1]) \in DOMAIN t
         THEN SuggestCompletionsHelper(t, prefix, index + 1)
         ELSE <<>>

\* Trie::suggest_completions
SuggestCompletions(t, prefix) == SuggestCompletionsHelper(t, prefix, 0)

\* tests::trie_contains
TrieContains(t, word) == word \in DOMAIN t /\ t[word] > 0

----------------------------------------------------------------------------
(* util.rs *)

\* char::is_numeric
Numeric == Digit10 \cup OtherNumeric

\* valid_token_char
ValidTokenChar(ch) == ch \in Alphabetic \cup Numeric \cup {"_"}

\* faulty variant: the first character is not looked at
IsTokenAnyFirst(current, min_len) ==
    IF Len(current) < min_len THEN FALSE
    ELSE IF \A i \in 1..Len(current) : current[i] \in Digit10 THEN FALSE
    ELSE TRUE

\* faulty variant: all() is taken to be false of no character
IsTokenNotVacuous(current, min_len) ==
    IF Len(current) < min_len THEN FALSE
    ELSE IF Len(current) > 0 /\ \A i \in 1..Len(current) : current[i] \in Digit10
         THEN FALSE
    ELSE IF Len(current) > 0 /\ current[1] \in Digit10 THEN FALSE
    ELSE TRUE

\* is_token
IsToken(current, min_len) ==
    IF Len(current) < min_len THEN FALSE
    ELSE IF \A i \in 1..Len(current) : current[i] \in Digit10 THEN FALSE
    ELSE IF Len(current) > 0 /\ current[1] \in Digit10 THEN FALSE
    ELSE TRUE

RECURSIVE ProcessTokenLoopKeepCurrent(_, _, _, _, _)
\* faulty variant: current is not cleared at a character that is not valid
ProcessTokenLoopKeepCurrent(token, min_len, i, cleaned, current) ==
    IF i > Len(token)
    THEN IF IsToken(current, min_len) THEN Append(cleaned, current) ELSE cleaned
    ELSE IF ~ValidTokenChar(token[i])
         THEN ProcessTokenLoopKeepCurrent(token, min_len, i + 1,
                  IF IsToken(current, min_len) THEN Append(cleaned, current) ELSE cleaned,
                  current)
         ELSE ProcessTokenLoopKeepCurrent(token, min_len, i + 1, cleaned,
                  Append(current, token[i]))

RECURSIVE ProcessTokenLoop(_, _, _, _, _)
\* process_token: the for loop from character i on, with its two locals
ProcessTokenLoop(token, min_len, i, cleaned, current) ==
    IF i > Len(token)
    THEN IF IsToken(current, min_len) THEN Append(cleaned, current) ELSE cleaned
    ELSE IF ~ValidTokenChar(token[i])
         THEN ProcessTokenLoop(token, min_len, i + 1,
                  IF IsToken(current, min_len) THEN Append(cleaned, current) ELSE cleaned,
                  <<>>)
         ELSE ProcessTokenLoop(token, min_len, i + 1, cleaned, Append(current, token[i]))

\* process_token
ProcessToken(token, min_len) == ProcessTokenLoop(token, min_len, 1, <<>>, <<>>)

Min(a, b) == IF a < b THEN a ELSE b

\* position.character as i32: a u32 of 2^31 or more becomes v - 2^32
AsI32(u) == IF u.hi = 1 THEN I32Min + u.low ELSE u.low

\* character - 1 overflows the i32
SubOverflows(character) == character = I32Min

\* character - 1 as a build without overflow checks computes it
WrappingSubOne(character) == IF character = I32Min THEN I32Max ELSE character - 1

\* the outcome of a call: the value it returns, or a panic
Returned(v) == [panic |-> FALSE, value |-> v]

Panicked == [panic |-> TRUE, value |-> <<>>]

\* line[i as usize] is inside the Vec; i is 0-based
InBounds(current_line, i) == i >= 0 /\ i < Len(current_line)

\* (i as usize) < line.len(): a negative i32 becomes 2^64 + i
AsUsizeLess(i, len) == i >= 0 /\ i < len

\* Vec::reverse
Reverse(s) == [k \in 1..Len(s) |-> s[Len(s) + 1 - k]]

RECURSIVE GetWordPrefixLoop(_, _, _)
\* get_word_prefix: the while loop from index i down
GetWordPrefixLoop(current_line, i, prefix) ==
    IF i < 0 THEN Returned(prefix)
    ELSE IF ~InBounds(current_line, i) THEN Panicked
    ELSE IF ValidTokenChar(current_line[i + 1])
         THEN GetWordPrefixLoop(current_line, i - 1, Append(prefix, current_line[i + 1]))
         ELSE Returned(prefix)

\* faulty variant: the start index is not clamped to the line
StartIndexNoClamp(current_line, character) == WrappingSubOne(character)

\* the start index of get_word_prefix and get_possible_current_word
StartIndex(current_line, character) ==
    Min(WrappingSubOne(character), Len(current_line) - 1)

\* faulty variant: the collected characters are not reversed
GetWordPrefixNoReverse(current_line, character, overflow_checks) ==
    IF overflow_checks /\ SubOverflows(character) THEN Panicked
    ELSE GetWordPrefixLoop(current_line, StartIndex(current_line, character), <<>>)

\* get_word_prefix; overflow_checks is the build's setting of that name
GetWordPrefix(current_line, character, overflow_checks) ==
    IF overflow_checks /\ SubOverflows(character) THEN Panicked
    ELSE LET r == GetWordPrefixLoop(current_line,
                                    StartIndex(current_line, character), <<>>)
         IN  IF r.panic THEN Panicked ELSE Returned(Reverse(r.value))

\* faulty variant: the backward scan does not move
TokenStartLoopNoScan(current_line, i) ==
    IF i < 0 THEN Returned(i)
    ELSE IF ~InBounds(current_line, i) THEN Panicked
    ELSE Returned(i)

RECURSIVE TokenStartLoop(_, _)
\* get_possible_current_word: the first while loop, returning i
TokenStartLoop(current_line, i) ==
    IF i < 0 THEN Returned(i)
    ELSE IF ~InBounds(current_line, i) THEN Panicked
    ELSE IF ValidTokenChar(current_line[i + 1])
         THEN TokenStartLoop(current_line, i - 1)
         ELSE Returned(i)

RECURSIVE ForwardLoopFromSecond(_, _, _, _, _)
\* faulty variant: the string of one character is not pushed
ForwardLoopFromSecond(current_line, i, limit, current, possible) ==
    IF ~AsUsizeLess(i, limit) THEN Returned(possible)
    ELSE IF ValidTokenChar(current_line[i + 1])
         THEN ForwardLoopFromSecond(current_line, i + 1, limit,
                          Append(current, current_line[i + 1]),
                          IF current = <<>> THEN possible
                          ELSE Append(possible, Append(current, current_line[i + 1])))
         ELSE Returned(possible)

RECURSIVE ForwardLoop(_, _, _, _, _)
\* get_possible_current_word: the second while loop, which stops before
\* index limit
ForwardLoop(current_line, i, limit, current, possible) ==
    IF ~AsUsizeLess(i, limit) THEN Returned(possible)
    ELSE IF ValidTokenChar(current_line[i + 1])
         THEN ForwardLoop(current_line, i + 1, limit,
                          Append(current, current_line[i + 1]),
                          Append(possible, Append(current, current_line[i + 1])))
         ELSE Returned(possible)

\* faulty variant: the forward walk stops at the cursor
GetPossibleCurrentWordToCursor(current_line, character, overflow_checks) ==
    IF overflow_checks /\ SubOverflows(character) THEN Panicked
    ELSE LET s == TokenStartLoop(current_line, StartIndex(current_line, character))
         IN  IF s.panic THEN Panicked
             ELSE ForwardLoop(current_line, s.value + 1,
                              Min(Len(current_line), character),
                              <<>>, <<>>)

\* get_possible_current_word
GetPossibleCurrentWord(current_line, character, overflow_checks) ==
    IF overflow_checks /\ SubOverflows(character) THEN Panicked
    ELSE LET s == TokenStartLoop(current_line, StartIndex(current_line, character))
         IN  IF s.panic THEN Panicked
             ELSE ForwardLoop(current_line, s.value + 1, Len(current_line),
                              <<>>, <<>>)

\* Vec::contains
Contains(v, x) == \E k \in 1..Len(v) : v[k] = x

\* faulty variant: a word is dropped when a suffix is a prefix of it
WordsToCompletionItemsPrefixFilter(words, suffixes, completions, kind) ==
    completions \o
        [k \in 1..Len(SelectSeq(words, LAMBDA w :
                          ~\E j \in 1..Len(suffixes) : IsPrefix(suffixes[j], w))) |->
            [label |-> SelectSeq(words, LAMBDA w :
                          ~\E j \in 1..Len(suffixes) : IsPrefix(suffixes[j], w))[k],
             kind |-> kind]]

\* words_to_completion_items: completions after the call; an item is its
\* label and its kind, sort_text equals the label
WordsToCompletionItems(words, suffixes, completions, kind) ==
    LET kept == SelectSeq(words, LAMBDA w : ~Contains(suffixes, w))
    IN  completions \o [k \in 1..Len(kept) |-> [label |-> kept[k], kind |-> kind]]

----------------------------------------------------------------------------
(* backend.rs *)

RECURSIVE SplitLoop(_, _, _, _)
SplitLoop(content, i, pieces, current) ==
    IF i > Len(content)
    THEN IF current = <<>> THEN pieces ELSE Append(pieces, current)
    ELSE IF content[i] \in Whitespace
         THEN SplitLoop(content, i + 1,
                  IF current = <<>> THEN pieces ELSE Append(pieces, current), <<>>)
         ELSE SplitLoop(content, i + 1, pieces, Append(current, content[i]))

\* str::split_whitespace: the non-empty pieces between runs of whitespace
SplitWhitespace(content) == SplitLoop(content, 1, <<>>, <<>>)

RECURSIVE WordsOfPieces(_, _, _)
WordsOfPieces(pieces, min_len, i) ==
    IF i > Len(pieces) THEN <<>>
    ELSE ProcessToken(pieces[i], min_len) \o WordsOfPieces(pieces, min_len, i + 1)

\* the words add_words and remove_words visit, in order: for each token of
\* split_whitespace, each word of process_token
ContentWords(content, min_len) == WordsOfPieces(SplitWhitespace(content), min_len, 1)

RECURSIVE InsertAll(_, _, _)
InsertAll(t, ws, i) ==
    IF i > Len(ws) THEN t ELSE InsertAll(Insert(t, ws[i]), ws, i + 1)

RECURSIVE RemoveAll(_, _, _)
RemoveAll(t, ws, i) ==
    IF i > Len(ws) THEN t ELSE RemoveAll(Remove(t, ws[i]), ws, i + 1)

\* ContentWords of every text a client sends here, computed once
TextWords == [ml \in MinWordLens |-> [x \in Texts \cup QueryTexts \cup TaskTexts |-> ContentWords(x, ml)]]

\* Backend::add_words
AddWords(t, content, min_len) == InsertAll(t, TextWords[min_len][content], 1)

\* faulty variant: a word is removed once, however often the content holds it
RemoveWordsOnce(t, content, min_len) ==
    LET ws == TextWords[min_len][content]
    IN  RemoveAll(t, SelectSeq([k \in 1..Len(ws) |-> IF \E j \in 1..(k - 1) : ws[j] = ws[k]
                                                      THEN <<"dup">> ELSE ws[k]],
                               LAMBDA w : w # <<"dup">>), 1)

\* Backend::remove_words
RemoveWords(t, content, min_len) == RemoveAll(t, TextWords[min_len][content], 1)

\* HashMap::insert on documents
DocInsert(docs, uri, text) ==
    [d \in DOMAIN docs \cup {uri} |-> IF d = uri THEN text ELSE docs[d]]

\* faulty variant: the record stays
DocRemoveKeep(docs, uri) == docs

\* HashMap::remove on documents
DocRemove(docs, uri) == [d \in DOMAIN docs \ {uri} |-> docs[d]]

\* faulty variant: a text without a token creates no record
OpenResultSkipEmpty(t, docs, uri, text, min_len) ==
    [trie |-> AddWords(t, text, min_len),
     documents |-> IF TextWords[min_len][text] = <<>> THEN docs
                   ELSE DocInsert(docs, uri, text)]

\* did_open: trie and documents after the handler
OpenResult(t, docs, uri, text, min_len) ==
    [trie |-> AddWords(t, text, min_len), documents |-> DocInsert(docs, uri, text)]

\* did_close: trie and documents after the handler
CloseResult(t, docs, uri, min_len) ==
    [trie |-> IF uri \in DOMAIN docs THEN RemoveWords(t, docs[uri], min_len) ELSE t,
     documents |-> DocRemove(docs, uri)]

RECURSIVE AddFragments(_, _, _, _)
\* did_change: the for loop over params.content_changes
AddFragments(t, changes, min_len, i) ==
    IF i > Len(changes) THEN t
    ELSE AddFragments(AddWords(t, changes[i], min_len), changes, min_len, i + 1)

\* faulty variant: only the last fragment is indexed
ChangeResultLastOnly(t, docs, uri, changes, min_len) ==
    LET known == uri \in DOMAIN docs
        n == Len(changes)
        t1 == IF known THEN RemoveWords(t, docs[uri], min_len) ELSE t
        docs1 == IF known /\ n > 0 THEN [docs EXCEPT ![uri] = changes[n]] ELSE docs
    IN  [trie |-> IF n > 0 THEN AddWords(t1, changes[n], min_len) ELSE t1,
         documents |-> docs1]

\* did_change: trie and documents after the handler
ChangeResult(t, docs, uri, changes, min_len) ==
    LET known == uri \in DOMAIN docs
        t1 == IF known THEN RemoveWords(t, docs[uri], min_len) ELSE t
        docs1 == IF known /\ Len(changes) > 0
                 THEN [docs EXCEPT ![uri] = changes[Len(changes)]]
                 ELSE docs
    IN  [trie |-> AddFragments(t1, changes, min_len, 1), documents |-> docs1]

----------------------------------------------------------------------------
(* Helpers of the properties *)

Range(s) == { s[i] : i \in 1..Len(s) }

Prefixes(w) == { SubSeq(w, 1, i) : i \in 0..Len(w) }

\* the count the trie stores for a word: 0 when its node does not exist
Count(t, w) == IF w \in DOMAIN t THEN t[w] ELSE 0

\* w is returned by suggest_completions for every prefix of w
Suggestible(t, w) == \A p \in Prefixes(w) : w \in Range(SuggestCompletions(t, p))

RECURSIVE SumOver(_, _)
SumOver(f, S) ==
    IF S = {} THEN 0
    ELSE LET x == CHOOSE y \in S : TRUE IN f[x] + SumOver(f, S \ {x})

\* total of the word counts of a trie
Indexed(t) == SumOver(t, DOMAIN t)

NoDocuments == [d \in {} |-> <<>>]

\* no function of util.rs and no completion has been called since the last
\* edit of a document
NoResult ==
    [op |-> "none", min_len |-> 0, uri |-> "", line_no |-> 0,
     character |-> [hi |-> 0, low |-> 0], overflow_checks |-> FALSE,
     panic |-> FALSE, value |-> <<>>]

\* the Mutex fields of Backend
Locks == {"documents", "snippets", "trie", "tmux_source"}

NoTask == "none"

\* Backend::new: no Mutex is held
AllFree == [l \in Locks |-> NoTask]

\* one thing a handler does between two points where another task can run:
\* lock().await of a Mutex, the drop of its guard, a call on the trie, a
\* write of documents, a read of documents
Instr(op, arg) == [op |-> op, arg |-> arg]

\* faulty variant: add_words does not take the trie lock
AddWordsProgNoLock(content, min_len) ==
    LET ws == ContentWords(content, min_len)
    IN  [k \in 1..Len(ws) |-> Instr("insert", ws[k])]

\* add_words: what it does, in order
AddWordsProg(content, min_len) ==
    LET ws == ContentWords(content, min_len)
    IN  <<Instr("lock", "trie")>>
            \o [k \in 1..Len(ws) |-> Instr("insert", ws[k])]
            \o <<Instr("unlock", "trie")>>

\* remove_words: what it does, in order
RemoveWordsProg(content, min_len) ==
    LET ws == ContentWords(content, min_len)
    IN  <<Instr("lock", "trie")>>
            \o [k \in 1..Len(ws) |-> Instr("remove", ws[k])]
            \o <<Instr("unlock", "trie")>>

\* maybe_update_tmux with lsp_args.tmux_source set; without it the handler
\* takes no lock here
MaybeUpdateTmuxProg == <<Instr("lock", "tmux_source"), Instr("unlock", "tmux_source")>>

\* initialize with lsp_args.snippet_folder set
InitializeProg == <<Instr("lock", "snippets"), Instr("unlock", "snippets")>>

\* faulty variant: the guard of documents is dropped before add_words
DidOpenProgEarlyDrop(uri, text, min_len) ==
    <<Instr("lock", "documents"), Instr("put", <<uri, text>>),
      Instr("unlock", "documents")>>
        \o AddWordsProg(text, min_len)
        \o MaybeUpdateTmuxProg

\* did_open
DidOpenProg(uri, text, min_len) ==
    <<Instr("lock", "documents"), Instr("put", <<uri, text>>)>>
        \o AddWordsProg(text, min_len)
        \o MaybeUpdateTmuxProg
        \o <<Instr("unlock", "documents")>>

\* did_close and did_change up to their test of documents.get
EditProg == <<Instr("lock", "documents"), Instr("branch", <<>>)>>

\* did_close from its test of documents.get on
DidCloseBody(docs, uri, min_len) ==
    (IF uri \in DOMAIN docs THEN RemoveWordsProg(docs[uri], min_len) ELSE <<>>)
        \o <<Instr("drop", uri)>>
        \o MaybeUpdateTmuxProg
        \o <<Instr("unlock", "documents")>>

RECURSIVE AddFragmentsProg(_, _, _)
\* did_change: the loop over content_changes
AddFragmentsProg(changes, min_len, i) ==
    IF i > Len(changes) THEN <<>>
    ELSE AddWordsProg(changes[i], min_len) \o AddFragmentsProg(changes, min_len, i + 1)

\* did_change from its test of documents.get_mut on
DidChangeBody(docs, uri, changes, min_len) ==
    (IF uri \in DOMAIN docs
     THEN RemoveWordsProg(docs[uri], min_len)
              \o (IF changes # <<>>
                  THEN <<Instr("put", <<uri, changes[Len(changes)]>>)>>
                  ELSE <<>>)
     ELSE <<>>)
        \o AddFragmentsProg(changes, min_len, 1)
        \o MaybeUpdateTmuxProg
        \o <<Instr("unlock", "documents")>>

\* faulty variant: the guard of documents is not dropped when a line is found
GetCurrentLineProgNoDrop ==
    <<Instr("lock", "documents"), Instr("get_line", <<>>)>>

\* get_current_line
GetCurrentLineProg ==
    <<Instr("lock", "documents"), Instr("get_line", <<>>), Instr("unlock", "documents")>>

\* completion after get_current_line returned Some: the trie guard lives to
\* the end of the if-let block, over prepare_tmux_words and suggest_snippets
CompletionBody ==
    <<Instr("lock", "trie"), Instr("suggest", <<>>),
      Instr("lock", "tmux_source"), Instr("unlock", "tmux_source"),
      Instr("lock", "snippets"), Instr("unlock", "snippets"),
      Instr("unlock", "trie")>>

\* faulty variant: the trie lock is taken before get_current_line
CompletionProgTrieFirst ==
    <<Instr("lock", "trie")>> \o GetCurrentLineProg \o Tail(CompletionBody)

\* completion
CompletionProg == GetCurrentLineProg \o CompletionBody

\* a task that runs no handler
Idle ==
    [handler |-> "none", uri |-> "", texts |-> <<>>, line_no |-> 0,
     character |-> 0, current_line |-> <<>>, prog |-> <<>>]

AllIdle == [t \in Tasks |-> Idle]

\* hist: requests is the number of handlers started; edges holds <<h, l>>
\* when a task acquired l while it held h; committed is the trie as the
\* last release of the trie lock left it; unlocked is whether a call on the
\* trie was made by a task that did not hold the trie lock; suggests is the
\* number of suggest_completions calls, seen the trie the last of them read
\* and seen_committed the value of committed at that time; order lists the
\* edit events in the order in which they acquired the documents lock;
\* change tells whether a did_change is past its test of documents and holds
\* the trie (pre) and the documents (docs) it found, its uri and its
\* fragments; during is the value of change at the last suggest
NoChange ==
    [active |-> FALSE, pre |-> TrieNew, docs |-> NoDocuments, uri |-> "",
     texts |-> <<>>]

NoHist ==
    [requests |-> 0, edges |-> {}, committed |-> TrieNew, unlocked |-> FALSE,
     suggests |-> 0, seen |-> TrieNew, seen_committed |-> TrieNew,
     order |-> <<>>, change |-> NoChange, during |-> NoChange]

\* per word: insert calls, remove calls, whether an insert came after a
\* remove of the word, and the live contributions (an insert adds one, a
\* remove takes one away unless there is none)
NoCalls == [w \in Words |-> [ins |-> 0, rem |-> 0, late |-> FALSE, live |-> 0]]

NCalls == SumOver([w \in Words |-> calls[w].ins + calls[w].rem], Words)

----------------------------------------------------------------------------
(* SpecTrie: the Trie alone, driven through insert and remove *)

InitTrie ==
    /\ trie = TrieNew
    /\ documents = NoDocuments
    /\ min_word_len = DefaultMinWordLen
    /\ last = [op |-> "new", uri |-> "", word |-> <<>>, texts |-> <<>>,
               old |-> <<>>,
               known |-> FALSE, after_open |-> FALSE]
    /\ before = [trie |-> TrieNew]
    /\ calls = NoCalls
    /\ line = <<>>
    /\ result = NoResult
    /\ locks = AllFree
    /\ tasks = AllIdle
    /\ hist = NoHist

TrieInsert(w) ==
    /\ NCalls < MaxCalls
    /\ trie' = Insert(trie, w)
    /\ last' = [last EXCEPT !.op = "insert", !.word = w]
    /\ before' = [before EXCEPT !.trie = trie]
    /\ calls' = [calls EXCEPT ![w].ins = @ + 1,
                              ![w].late = @ \/ calls[w].rem > 0,
                              ![w].live = @ + 1]
    /\ UNCHANGED <<documents, min_word_len, utilVars, taskVars>>

TrieRemove(w) ==
    /\ NCalls < MaxCalls
    /\ trie' = Remove(trie, w)
    /\ last' = [last EXCEPT !.op = "remove", !.word = w]
    /\ before' = [before EXCEPT !.trie = trie]
    /\ calls' = [calls EXCEPT ![w].rem = @ + 1,
                              ![w].live = Max(@ - 1, 0)]
    /\ UNCHANGED <<documents, min_word_len, utilVars, taskVars>>

NextTrie ==
    \/ \E w \in Words : TrieInsert(w)
    \/ \E w \in Words : TrieRemove(w)

SpecTrie == InitTrie /\ [][NextTrie]_vars

----------------------------------------------------------------------------
(* Properties of the Trie, under SpecTrie *)

\* C2: after any sequence of insert and remove calls, suggest_completions(p)
\* returns exactly the words with a live count that start with p, and the
\* empty list when following p reaches no node.
C2_SuggestExact ==
    \A p \in Queries :
        /\ Range(SuggestCompletions(trie, p))
              = { w \in Words : calls[w].live > 0 /\ IsPrefix(p, w) }
        /\ p \notin DOMAIN trie => SuggestCompletions(trie, p) = <<>>

\* C2 witness: three words are stored, one was removed again, and the prefix
\* "a" selects two of the stored words but not the third.
C2_Witness ==
    /\ last.op = "remove"
    /\ Range(SuggestCompletions(trie, <<"a">>)) = { <<"a", "b">>, <<"a", "c">> }
    /\ Range(SuggestCompletions(trie, <<>>)) = { <<"a", "b">>, <<"a", "c">>, <<"b">> }
    /\ SuggestCompletions(trie, <<"c">>) = <<>>

\* C3: a word inserted n times and then removed m times is returned by
\* suggest_completions, for each of its prefixes, iff m < n.
C3_Multiplicity ==
    \A w \in Words :
        ~calls[w].late =>
            \A p \in Prefixes(w) :
                (w \in Range(SuggestCompletions(trie, p)))
                    <=> (calls[w].rem < calls[w].ins)

\* C3 witness: a word inserted twice was suggestible after the first remove
\* and is no longer after the second.
C3_Witness ==
    \E w \in Words :
        /\ calls[w] = [ins |-> 2, rem |-> 2, late |-> FALSE, live |-> 0]
        /\ last.op = "remove" /\ last.word = w
        /\ Suggestible(before.trie, w)
        /\ ~Suggestible(trie, w)

\* C8: once every inserted word has been removed as many times as it was
\* inserted, inserts first, the trie is the root alone with count 0.
C8_PruneToRoot ==
    (\A w \in Words : ~calls[w].late /\ calls[w].rem = calls[w].ins)
        => trie = TrieNew

\* C8 witness: two words, one a prefix of the other, were inserted and then
\* removed, and the last remove emptied the trie.
C8_Witness ==
    /\ \A w \in Words : ~calls[w].late /\ calls[w].rem = calls[w].ins
    /\ calls[<<"a">>].ins = 1 /\ calls[<<"a", "b", "c">>].ins = 1
    /\ last.op = "remove"
    /\ Cardinality(DOMAIN before.trie) > 1
    /\ trie = TrieNew

\* C9: every node other than the root has a child or a count > 0.
C9_NoEmptyNode ==
    \A node \in DOMAIN trie \ {<<>>} :
        Children(trie, node) # {} \/ trie[node] > 0

\* C9 witness: a remove emptied the node of a word below a node that stays
\* (it has another child), and the emptied node is gone.
C9_Witness ==
    /\ last.op = "remove"
    /\ last.word \in DOMAIN before.trie
    /\ last.word \notin DOMAIN trie
    /\ Cardinality(DOMAIN trie) > 1

\* C10: remove of a word never inserted, or whose count is 0, leaves the trie
\* unchanged: same nodes, same counts, same suggestions for every prefix.
C10_RemoveAbsentNoop ==
    (/\ last.op = "remove"
     /\ calls[last.word].ins = 0 \/ Count(before.trie, last.word) = 0)
        => /\ trie = before.trie
           /\ \A p \in Queries :
                  SuggestCompletions(trie, p) = SuggestCompletions(before.trie, p)

\* C10 witness: the removed word is a strict prefix of a stored word and an
\* extension of another stored word, and was never inserted itself.
C10_Witness ==
    /\ last.op = "remove" /\ last.word = <<"a", "b">>
    /\ calls[<<"a", "b">>].ins = 0
    /\ TrieContains(before.trie, <<"a">>)
    /\ TrieContains(before.trie, <<"a", "b", "c">>)

\* C20: the count of every trie node is >= 0, and a remove of a word whose
\* count is 0 leaves its count at 0.
C20_CountNeverNegative ==
    /\ \A node \in DOMAIN trie : trie[node] >= 0
    /\ (last.op = "remove" /\ Count(before.trie, last.word) = 0)
          => Count(trie, last.word) = 0

\* C20 witness: a word was inserted once and removed twice; the second
\* remove found its count at 0, and other words are still stored.
C20_Witness ==
    /\ last.op = "remove"
    /\ calls[last.word].ins = 1 /\ calls[last.word].rem = 2
    /\ Count(before.trie, last.word) = 0
    /\ Cardinality(DOMAIN trie) > 1
    /\ \A node \in DOMAIN trie : trie[node] >= 0

\* C36: suggest_completions(p) returns each stored word at most once,
\* however often the word was inserted: the length of the list is the number
\* of distinct words with a count above 0 that start with p.
C36_EachWordOnce ==
    \A p \in Queries \cup {<<>>} :
        LET r == SuggestCompletions(trie, p) IN
        /\ \A i \in 1..Len(r), j \in 1..Len(r) : i # j => r[i] # r[j]
        /\ Len(r) = Cardinality({ w \in DOMAIN trie : trie[w] > 0 /\ IsPrefix(p, w) })

\* C36 witness: a word was inserted three times and another word with the
\* same first character twice, and suggest_completions of that character
\* returns a list of two words.
C36_Witness ==
    \E v \in Words, w \in Words :
        /\ v # w /\ Len(v) >= 1 /\ Len(w) >= 1 /\ v[1] = w[1]
        /\ Count(trie, v) = 3 /\ Count(trie, w) = 2
        /\ Len(SuggestCompletions(trie, <<v[1]>>)) = 2

\* C21: insert(w) increases the count of w by exactly 1, creates only the
\* missing nodes on the path of w and leaves the count of every other word
\* unchanged; inserting a word does not make its strict prefix or a sibling
\* a stored word.
C21_InsertFrame ==
    /\ last.op = "insert" =>
          /\ Count(trie, last.word) = Count(before.trie, last.word) + 1
          /\ DOMAIN trie = DOMAIN before.trie \cup Prefixes(last.word)
          /\ \A p \in DOMAIN trie :
                p # last.word => trie[p] = Count(before.trie, p)
    /\ LET t == Insert(TrieNew, <<"a", "b", "c">>)
       IN  /\ TrieContains(t, <<"a", "b", "c">>)
           /\ ~TrieContains(t, <<"a", "b">>)
           /\ ~TrieContains(t, <<"a", "c">>)

\* C21 witness: a word of three characters was inserted next to a stored
\* sibling; the node of its strict prefix was created by the insert and
\* holds no word.
C21_Witness ==
    /\ last.op = "insert" /\ last.word = <<"a", "b", "c">>
    /\ <<"a", "b">> \notin DOMAIN before.trie
    /\ Count(before.trie, <<"a", "c">>) > 0
    /\ Count(trie, <<"a", "c">>) = Count(before.trie, <<"a", "c">>)
    /\ <<"a", "b">> \in DOMAIN trie /\ Count(trie, <<"a", "b">>) = 0

\* C22: remove(w) on a stored word decreases only the count of w, by 1, and
\* leaves the count and the suggestibility of every other word unchanged:
\* words that share a prefix with w, that extend w, that are prefixes of w.
C22_RemoveFrame ==
    (last.op = "remove" /\ Count(before.trie, last.word) > 0) =>
        /\ Count(trie, last.word) = Count(before.trie, last.word) - 1
        /\ \A p \in (DOMAIN before.trie \cup DOMAIN trie \cup Words) \ {last.word} :
              /\ Count(trie, p) = Count(before.trie, p)
              /\ Suggestible(trie, p) <=> Suggestible(before.trie, p)

\* C22 witness: a stored word was removed to count 0 while a word that
\* extends it, a word that is a prefix of it and a word that shares a
\* prefix with it are stored.
C22_Witness ==
    /\ last.op = "remove" /\ last.word = <<"a", "b">>
    /\ Count(before.trie, <<"a", "b">>) = 1
    /\ Suggestible(trie, <<"a", "b", "c">>)
    /\ Suggestible(trie, <<"a">>)
    /\ Suggestible(trie, <<"a", "c">>)
    /\ ~Suggestible(trie, <<"a", "b">>)

----------------------------------------------------------------------------
(* SpecCount: the Trie with word counts at the ends of the i32 range.  A   *)
(* count of n is what n inserts of the word leave.                         *)

\* the tries that hold the words of CountWords with counts of CountValues
CountTries ==
    { [p \in UNION { Prefixes(w) : w \in { v \in CountWords : f[v] > 0 } } \cup {<<>>} |->
          IF p \in CountWords THEN f[p] ELSE 0] :
      f \in [CountWords -> CountValues] }

InitCount ==
    /\ trie \in CountTries
    /\ documents = NoDocuments
    /\ min_word_len = DefaultMinWordLen
    /\ last = [op |-> "new", uri |-> "", word |-> <<>>, texts |-> <<>>,
               old |-> <<>>,
               known |-> FALSE, after_open |-> FALSE]
    /\ before = [trie |-> trie]
    /\ calls = NoCalls
    /\ line = <<>>
    /\ result = NoResult
    /\ locks = AllFree
    /\ tasks = AllIdle
    /\ hist = NoHist

\* Trie::insert in a build with overflow checks: word_count += 1 panics at
\* the largest i32
TrieInsertChecked(w) ==
    /\ NCalls < MaxCalls
    /\ IF Count(trie, w) = I32Max
       THEN /\ trie' = trie
            /\ last' = [last EXCEPT !.op = "insert_panic", !.word = w]
       ELSE /\ trie' = Insert(trie, w)
            /\ last' = [last EXCEPT !.op = "insert", !.word = w]
    /\ before' = [before EXCEPT !.trie = trie]
    /\ calls' = [calls EXCEPT ![w].ins = @ + 1,
                              ![w].late = @ \/ calls[w].rem > 0,
                              ![w].live = @ + 1]
    /\ UNCHANGED <<documents, min_word_len, utilVars, taskVars>>

NextCount ==
    \/ \E w \in CountWords : TrieInsert(w)
    \/ \E w \in CountWords : TrieInsertChecked(w)
    \/ \E w \in CountWords : TrieRemove(w)

SpecCount == InitCount /\ [][NextCount]_vars

\* C27: for every value the i32 word_count of a word can hold, insert
\* yields a count exactly one greater, without overflow, wrap-around to a
\* negative count, or abort.
C27_InsertAlwaysAddsOne ==
    /\ last.op # "insert_panic"
    /\ last.op = "insert" =>
          /\ Count(trie, last.word) > Count(before.trie, last.word)
          /\ Count(trie, last.word) - 1 = Count(before.trie, last.word)

----------------------------------------------------------------------------
(* Spec: the document synchronisation handlers of Backend.  A handler takes *)
(* the documents lock on entry and holds it to its end, so the handlers     *)
(* run one at a time and each is one step.  maybe_update_tmux only writes   *)
(* tmux_source, which no handler here reads.                                *)

\* the content stored for uri, the empty text when there is none
RECURSIVE SplitNewlineLoop(_, _, _, _)
\* str::split("\n"): the pieces between the newlines, the empty ones kept
SplitNewlineLoop(content, i, pieces, current) ==
    IF i > Len(content) THEN Append(pieces, current)
    ELSE IF content[i] = "\n"
         THEN SplitNewlineLoop(content, i + 1, Append(pieces, current), <<>>)
         ELSE SplitNewlineLoop(content, i + 1, pieces, Append(current, content[i]))

SplitLines(content) == SplitNewlineLoop(content, 1, <<>>, <<>>)

\* Option: None and Some(v)
None == [some |-> FALSE, value |-> <<>>]

Some(v) == [some |-> TRUE, value |-> v]

\* get_current_line
GetCurrentLine(docs, uri, line_no) ==
    IF uri \in DOMAIN docs
    THEN LET lines == SplitLines(docs[uri])
         IN  IF line_no < Len(lines) THEN Some(lines[line_no + 1]) ELSE None
    ELSE None

\* completion: the items of kind TEXT, which come from the trie; the items
\* of tmux, of the commands, of the snippets and of the files carry other
\* kinds
CompletionResult(t, docs, uri, line_no, character, overflow_checks) ==
    LET current_line == GetCurrentLine(docs, uri, line_no) IN
    IF ~current_line.some THEN Returned(<<>>)
    ELSE LET prefix == GetWordPrefix(current_line.value, AsI32(character),
                                     overflow_checks)
             suffixes == GetPossibleCurrentWord(current_line.value,
                                                AsI32(character), overflow_checks)
         IN  IF prefix.panic \/ suffixes.panic THEN Panicked
             ELSE Returned(WordsToCompletionItems(
                      SuggestCompletions(t, prefix.value), suffixes.value,
                      <<>>, "TEXT"))

StoredContent(docs, uri) == IF uri \in DOMAIN docs THEN docs[uri] ELSE <<>>

\* last: op is the handler, uri its document, texts the text of did_open or
\* the fragments of did_change, old the content did_close found stored for
\* uri, known whether uri had a record before the call, after_open whether
\* a did_close directly follows the did_open that created the record
Init ==
    /\ trie = TrieNew
    /\ documents = NoDocuments
    /\ min_word_len \in MinWordLens
    /\ last = [op |-> "new", uri |-> "", word |-> <<>>, texts |-> <<>>,
               old |-> <<>>,
               known |-> FALSE, after_open |-> FALSE]
    /\ before = [trie |-> TrieNew]
    /\ calls = NoCalls
    /\ line = <<>>
    /\ result = NoResult
    /\ locks = AllFree
    /\ tasks = AllIdle
    /\ hist = NoHist

DidOpen(uri, text) ==
    LET r == OpenResult(trie, documents, uri, text, min_word_len) IN
    /\ trie' = r.trie
    /\ Indexed(trie') <= MaxIndexed
    /\ documents' = r.documents
    /\ last' = [last EXCEPT !.op = "did_open", !.uri = uri, !.texts = <<text>>,
                            !.old = <<>>,
                            !.known = uri \in DOMAIN documents,
                            !.after_open = FALSE]
    /\ result' = NoResult
    /\ UNCHANGED <<min_word_len, before, calls, line, taskVars>>

DidClose(uri) ==
    LET r == CloseResult(trie, documents, uri, min_word_len) IN
    /\ trie' = r.trie
    /\ documents' = r.documents
    /\ last' = [last EXCEPT !.op = "did_close", !.uri = uri, !.texts = <<>>,
                            !.old = StoredContent(documents, uri),
                            !.known = uri \in DOMAIN documents,
                            !.after_open = /\ last.op = "did_open"
                                           /\ last.uri = uri
                                           /\ ~last.known]
    /\ result' = NoResult
    /\ UNCHANGED <<min_word_len, before, calls, line, taskVars>>

DidChange(uri, changes) ==
    LET r == ChangeResult(trie, documents, uri, changes, min_word_len) IN
    /\ trie' = r.trie
    /\ Indexed(trie') <= MaxIndexed
    /\ documents' = r.documents
    /\ last' = [last EXCEPT !.op = "did_change", !.uri = uri, !.texts = changes,
                            !.old = <<>>,
                            !.known = uri \in DOMAIN documents,
                            !.after_open = FALSE]
    /\ result' = NoResult
    /\ UNCHANGED <<min_word_len, before, calls, line, taskVars>>

Next ==
    \/ \E uri \in DocIds, text \in Texts : DidOpen(uri, text)
    \/ \E uri \in DocIds : DidClose(uri)
    \/ \E uri \in DocIds, changes \in FragLists : DidChange(uri, changes)

Spec == Init /\ [][Next]_vars

----------------------------------------------------------------------------
(* Properties of the document synchronisation, under Spec *)

\* occurrences of w in a sequence of words
Occ(w, ws) == Cardinality({ i \in 1..Len(ws) : ws[i] = w })

\* occurrences of w among the tokens of one text
TextOcc(w, text) == Occ(w, TextWords[min_word_len][text])

\* occurrences of w among the tokens of the stored contents of all documents
StoredOcc(docs, w) ==
    SumOver([d \in DOMAIN docs |-> TextOcc(w, docs[d])], DOMAIN docs)

\* occurrences of w among the tokens of all fragments of a did_change
FragOcc(w, changes) ==
    SumOver([i \in 1..Len(changes) |-> TextOcc(w, changes[i])], 1..Len(changes))

\* every word a text of the client holds under some min_word_len
AllTextWords == UNION { Range(TextWords[ml][x]) : ml \in MinWordLens, x \in Texts }

TokensOf(text) == Range(TextWords[min_word_len][text])

\* C1: after every handler, the count of every word equals its occurrences
\* among the tokens of the stored contents of all documents.
C1_IndexedEqualsStored ==
    \A w \in AllTextWords \cup DOMAIN trie :
        Count(trie, w) = StoredOcc(documents, w)

\* C4: when two documents hold the token w, w is still returned for each of
\* its prefixes after one of them is closed, and the call after that close
\* does not end it unless it closes the other document or changes it to a
\* text without w.
C4_SharedWordSurvivesClose ==
    [][ /\ \A a \in DOMAIN documents, b \in DOMAIN documents :
              (a # b /\ last'.op = "did_close" /\ last'.uri = a) =>
                  \A w \in TokensOf(documents[a]) \cap TokensOf(documents[b]) :
                      Suggestible(trie', w)
        /\ (last.op = "did_close" /\ last.known) =>
              \A b \in (DOMAIN documents \cap DOMAIN documents') \ {last.uri} :
                  \A w \in TokensOf(last.old) \cap TokensOf(documents[b])
                                             \cap TokensOf(documents'[b]) :
                      Suggestible(trie, w) => Suggestible(trie', w)
      ]_vars

\* C5: did_open of an Absent document followed at once by did_close of it
\* gives back the trie (nodes and counts) and the DocumentStore of before the
\* open; a word only that document holds is suggestible in between and not
\* after.
C5_OpenCloseRoundTrip ==
    [][ (last'.op = "did_open" /\ ~last'.known) =>
            LET r == CloseResult(trie', documents', last'.uri, min_word_len) IN
            /\ r.trie = trie
            /\ r.documents = documents
            /\ \A w \in TokensOf(last'.texts[1]) :
                  Count(trie, w) = 0 =>
                      Suggestible(trie', w) /\ ~Suggestible(r.trie, w)
      ]_vars

\* C5 witness: a document with tokens was opened while another document was
\* open and closed by the next call, and the index holds exactly the tokens
\* of the documents that are still open.
C5_Witness ==
    /\ last.op = "did_close" /\ last.after_open /\ last.known
    /\ TokensOf(last.old) # {}
    /\ documents # NoDocuments
    /\ \A w \in AllTextWords \cup DOMAIN trie :
          Count(trie, w) = StoredOcc(documents, w)

\* C6: did_change and did_close for a uri with no record change neither the
\* trie nor the DocumentStore.
C6_UnknownUriNoop ==
    [][ (last'.op \in {"did_change", "did_close"} /\ ~last'.known) =>
            trie' = trie /\ documents' = documents
      ]_vars

\* C7: did_change of an Open document with fragments f1..fn, n >= 1, stores
\* the text of fn and leaves for every word the count it had, less its
\* occurrences in the old content (not below 0), plus its occurrences in all
\* of f1..fn.
C7_ChangeCounts ==
    [][ (last'.op = "did_change" /\ last'.known /\ Len(last'.texts) >= 1) =>
            LET uri == last'.uri
                changes == last'.texts
            IN  /\ documents' = [documents EXCEPT ![uri] = changes[Len(changes)]]
                /\ \A w \in AllTextWords \cup DOMAIN trie \cup DOMAIN trie' :
                      Count(trie', w)
                        = Max(Count(trie, w) - TextOcc(w, documents[uri]), 0)
                            + FragOcc(w, changes)
      ]_vars

\* C7 witness: a did_change of an Open document carried two fragments, and a
\* word of the first fragment that the last one lacks is counted in the trie
\* though the stored content is the last fragment.
C7_Witness ==
    /\ last.op = "did_change" /\ last.known /\ Len(last.texts) = 2
    /\ documents[last.uri] = last.texts[2]
    /\ \E w \in TokensOf(last.texts[1]) \ TokensOf(last.texts[2]) :
          Count(trie, w) > StoredOcc(documents, w)

\* C23: did_open(d, text) on an Absent document stores text as the content
\* of d and raises the count of every word by its occurrences among the
\* tokens of text; a text with no acceptable token, the empty text included,
\* still creates the record and leaves the trie unchanged.
C23_OpenAbsent ==
    [][ (last'.op = "did_open" /\ ~last'.known) =>
            LET d == last'.uri
                text == last'.texts[1]
            IN  /\ documents' = DocInsert(documents, d, text)
                /\ d \in DOMAIN documents' /\ documents'[d] = text
                /\ \A w \in AllTextWords \cup DOMAIN trie \cup DOMAIN trie' :
                      Count(trie', w) = Count(trie, w) + TextOcc(w, text)
                /\ TokensOf(text) = {} => trie' = trie
      ]_vars

\* C23 witness: an Absent document was opened with a text that holds a word
\* twice while another document that holds the word is open.
C23_Witness ==
    /\ last.op = "did_open" /\ ~last.known
    /\ Cardinality(DOMAIN documents) = 2
    /\ \E w \in TokensOf(last.texts[1]) :
          /\ TextOcc(w, last.texts[1]) = 2
          /\ Count(trie, w) > 2

\* C24: did_close(d) on an Open document removes one count per token
\* occurrence of the stored content of d and deletes the record of d, so d
\* is Absent afterwards: a completion for d yields no candidate and another
\* did_close(d) changes nothing.
C24_CloseOpen ==
    [][ (last'.op = "did_close" /\ last'.known) =>
            LET d == last'.uri IN
            /\ d \notin DOMAIN documents'
            /\ documents' = [e \in DOMAIN documents \ {d} |-> documents[e]]
            /\ \A w \in AllTextWords \cup DOMAIN trie \cup DOMAIN trie' :
                  Count(trie', w) = Max(Count(trie, w) - TextOcc(w, documents[d]), 0)
            /\ \A line_no \in LineNumbers, character \in QueryCharacters :
                  CompletionResult(trie', documents', d, line_no, character, FALSE)
                      = Returned(<<>>)
            /\ CloseResult(trie', documents', d, min_word_len)
                  = [trie |-> trie', documents |-> documents']
      ]_vars

\* C24 witness: an Open document with tokens was closed while another
\* document is open, and a word the two share is still counted.
C24_Witness ==
    /\ last.op = "did_close" /\ last.known /\ ~last.after_open
    /\ last.uri \notin DOMAIN documents
    /\ \E b \in DOMAIN documents :
          \E w \in TokensOf(last.old) \cap TokensOf(documents[b]) :
              Count(trie, w) > 0

----------------------------------------------------------------------------
(* SpecWellFormed: the handlers of Spec under a client that opens only     *)
(* Absent documents, changes only Open documents, with exactly one         *)
(* fragment, and closes only Open documents.                               *)

WellFormedOpen(uri, text) == uri \notin DOMAIN documents /\ DidOpen(uri, text)

WellFormedChange(uri, text) == uri \in DOMAIN documents /\ DidChange(uri, <<text>>)

WellFormedClose(uri) == uri \in DOMAIN documents /\ DidClose(uri)

NextWellFormed ==
    \/ \E uri \in DocIds, text \in Texts : WellFormedOpen(uri, text)
    \/ \E uri \in DocIds, text \in Texts : WellFormedChange(uri, text)
    \/ \E uri \in DocIds : WellFormedClose(uri)

SpecWellFormed == Init /\ [][NextWellFormed]_vars

\* C28: in a well-formed event sequence, after every event the count of
\* every word equals its token occurrences summed over the stored contents
\* of all Open documents.
C28_WellFormedCounts ==
    /\ \A w \in AllTextWords \cup DOMAIN trie :
          Count(trie, w) = StoredOcc(documents, w)
    /\ Indexed(trie)
          = SumOver([d \in DOMAIN documents |->
                        Len(TextWords[min_word_len][documents[d]])], DOMAIN documents)

\* C28 witness: in a well-formed sequence a did_change replaced the content
\* of one of two Open documents that shared a word, and the word is counted
\* for the other document only.
C28_Witness ==
    /\ last.op = "did_change" /\ last.known
    /\ Cardinality(DOMAIN documents) = 2
    /\ \E b \in DOMAIN documents \ {last.uri} :
          \E w \in TokensOf(documents[b]) \ TokensOf(documents[last.uri]) :
              Count(trie, w) = TextOcc(w, documents[b]) /\ Count(trie, w) = 2

----------------------------------------------------------------------------
(* SpecQuery: documents are opened and closed and completion is asked.  A  *)
(* completion reads documents under its lock in get_current_line and the   *)
(* trie under its lock afterwards; here no edit runs between the two, so   *)
(* the request is one step.  A completion changes nothing that a later     *)
(* request reads, so a completion that follows a completion reaches no     *)
(* response that one completion does not reach: one is taken between two   *)
(* edits.                                                                  *)

\* completion
Completion(uri, line_no, character, overflow_checks) ==
    LET r == CompletionResult(trie, documents, uri, line_no, character,
                              overflow_checks) IN
    /\ result.op = "none"
    /\ result' = [NoResult EXCEPT !.op = "completion", !.uri = uri,
                                  !.line_no = line_no,
                                  !.character = character,
                                  !.overflow_checks = overflow_checks,
                                  !.panic = r.panic, !.value = r.value]
    /\ UNCHANGED <<trie, documents, min_word_len, last, before, calls, line, taskVars>>

NextQuery ==
    \/ \E uri \in DocIds, text \in QueryTexts : DidOpen(uri, text)
    \/ \E uri \in DocIds : DidClose(uri)
    \/ \E uri \in DocIds, line_no \in LineNumbers,
           character \in QueryCharacters, overflow_checks \in BOOLEAN :
           Completion(uri, line_no, character, overflow_checks)

SpecQuery == Init /\ [][NextQuery]_vars

----------------------------------------------------------------------------
(* Properties of completion, under SpecQuery *)

\* C16: the word candidates of a completion are exactly
\* suggest_completions(get_word_prefix(line, column)) without the candidates
\* equal to a member of get_possible_current_word(line, column); nothing
\* else is dropped and nothing is added.
C16_CompletionWords ==
    (result.op = "completion" /\ ~result.panic) =>
        LET cl == GetCurrentLine(documents, result.uri, result.line_no)
            column == AsI32(result.character)
            suggested == SuggestCompletions(trie,
                             GetWordPrefix(cl.value, column, FALSE).value)
            visible == GetPossibleCurrentWord(cl.value, column, FALSE).value
        IN  IF cl.some
            THEN /\ { result.value[k].label : k \in 1..Len(result.value) }
                       = Range(suggested) \ Range(visible)
                 /\ Len(result.value)
                       = Cardinality(Range(suggested) \ Range(visible))
                 /\ \A k \in 1..Len(result.value) : result.value[k].kind = "TEXT"
            ELSE result.value = <<>>

\* C16 witness: a completion dropped a suggested word that equals a member
\* of get_possible_current_word and kept another suggested word.
C16_Witness ==
    /\ result.op = "completion" /\ ~result.panic
    /\ Len(result.value) >= 1
    /\ LET cl == GetCurrentLine(documents, result.uri, result.line_no)
           column == AsI32(result.character)
       IN  /\ cl.some
           /\ \E w \in Range(SuggestCompletions(trie,
                             GetWordPrefix(cl.value, column, FALSE).value)) :
                 /\ Contains(GetPossibleCurrentWord(cl.value, column, FALSE).value, w)
                 /\ \A k \in 1..Len(result.value) : result.value[k].label # w

----------------------------------------------------------------------------
(* SpecText: one call of a function of util.rs on a line drawn from Lines *)

InitText ==
    /\ trie = TrieNew
    /\ documents = NoDocuments
    /\ min_word_len = DefaultMinWordLen
    /\ last = [op |-> "new", uri |-> "", word |-> <<>>, texts |-> <<>>,
               old |-> <<>>,
               known |-> FALSE, after_open |-> FALSE]
    /\ before = [trie |-> TrieNew]
    /\ calls = NoCalls
    /\ line \in Lines
    /\ result = NoResult
    /\ locks = AllFree
    /\ tasks = AllIdle
    /\ hist = NoHist

CallIsToken(min_len) ==
    /\ result.op = "none"
    /\ result' = [NoResult EXCEPT !.op = "is_token", !.min_len = min_len,
                                  !.value = IsToken(line, min_len)]
    /\ UNCHANGED <<trie, documents, min_word_len, last, before, calls, line, taskVars>>

CallProcessToken(min_len) ==
    /\ result.op = "none"
    /\ result' = [NoResult EXCEPT !.op = "process_token", !.min_len = min_len,
                                  !.value = ProcessToken(line, min_len)]
    /\ UNCHANGED <<trie, documents, min_word_len, last, before, calls, line, taskVars>>

CallGetWordPrefix(character, overflow_checks) ==
    LET r == GetWordPrefix(line, AsI32(character), overflow_checks) IN
    /\ result.op = "none"
    /\ result' = [NoResult EXCEPT !.op = "get_word_prefix",
                                  !.character = character,
                                  !.overflow_checks = overflow_checks,
                                  !.panic = r.panic, !.value = r.value]
    /\ UNCHANGED <<trie, documents, min_word_len, last, before, calls, line, taskVars>>

CallGetPossibleCurrentWord(character, overflow_checks) ==
    LET r == GetPossibleCurrentWord(line, AsI32(character), overflow_checks) IN
    /\ result.op = "none"
    /\ result' = [NoResult EXCEPT !.op = "get_possible_current_word",
                                  !.character = character,
                                  !.overflow_checks = overflow_checks,
                                  !.panic = r.panic, !.value = r.value]
    /\ UNCHANGED <<trie, documents, min_word_len, last, before, calls, line, taskVars>>

NextText ==
    \/ \E min_len \in MinLens : CallIsToken(min_len)
    \/ \E min_len \in MinLens : CallProcessToken(min_len)
    \/ \E character \in Characters, overflow_checks \in BOOLEAN :
           CallGetWordPrefix(character, overflow_checks)
    \/ \E character \in Characters, overflow_checks \in BOOLEAN :
           CallGetPossibleCurrentWord(character, overflow_checks)

SpecText == InitText /\ [][NextText]_vars

----------------------------------------------------------------------------
(* Properties of the functions of util.rs, under SpecText.  Positions in a *)
(* line are 1-based here: index i of the source is position i + 1.         *)

\* s is a non-empty run of valid token characters
IsRun(s) == Len(s) > 0 /\ \A i \in 1..Len(s) : ValidTokenChar(s[i])

AllDigits(s) == \A i \in 1..Len(s) : s[i] \in Digit10

\* the positions where a maximal run of valid token characters starts
RunStarts(s) ==
    { i \in 1..Len(s) : ValidTokenChar(s[i]) /\ (i = 1 \/ ~ValidTokenChar(s[i - 1])) }

\* the last position of the maximal run of valid token characters that
\* starts at position first; first - 1 when no run starts there
RunEndFrom(s, first) ==
    CHOOSE e \in (first - 1)..Len(s) :
        /\ \A k \in first..e : ValidTokenChar(s[k])
        /\ (e = Len(s) \/ ~ValidTokenChar(s[e + 1]))

\* the first position of the maximal run of valid token characters that
\* ends at position e; e + 1 when the character at e is not valid
RunStartBefore(s, e) ==
    CHOOSE b \in 1..(e + 1) :
        /\ \A k \in b..e : ValidTokenChar(s[k])
        /\ (b = 1 \/ ~ValidTokenChar(s[b - 1]))

\* C11: is_token accepts a maximal run of valid characters iff its length
\* is >= min_len, it is not composed entirely of decimal digits and its
\* first character is no decimal digit; with min_len 2 it rejects "123abc",
\* "42" and "a" and accepts "abc123".
C11_IsTokenPolicy ==
    /\ (result.op = "is_token" /\ IsRun(line)) =>
          (result.value <=> /\ Len(line) >= result.min_len
                            /\ ~AllDigits(line)
                            /\ line[1] \notin Digit10)
    /\ ~IsToken(<<"1", "2", "3", "a", "b", "c">>, DefaultMinWordLen)
    /\ ~IsToken(<<"4", "2">>, DefaultMinWordLen)
    /\ ~IsToken(<<"a">>, DefaultMinWordLen)
    /\ IsToken(<<"a", "b", "c", "1", "2", "3">>, DefaultMinWordLen)

\* C11 witness: is_token accepted a run of exactly min_len characters that
\* holds a decimal digit after its first character.
C11_Witness ==
    /\ result.op = "is_token" /\ IsRun(line)
    /\ result.value = TRUE
    /\ Len(line) = result.min_len /\ result.min_len >= 2
    /\ \E i \in 2..Len(line) : line[i] \in Digit10

\* C12: process_token returns, left to right and with repetitions, exactly
\* the maximal runs of valid characters that is_token accepts, and the words
\* add_words and remove_words get by splitting on whitespace first are the
\* same sequence.
C12_ProcessTokenRuns ==
    result.op = "process_token" =>
        LET acc == { i \in RunStarts(line) :
                        IsToken(SubSeq(line, i, RunEndFrom(line, i)), result.min_len) }
        IN  /\ Len(result.value) = Cardinality(acc)
            /\ \A i \in acc :
                  result.value[Cardinality({ j \in acc : j <= i })]
                      = SubSeq(line, i, RunEndFrom(line, i))
            /\ ContentWords(line, result.min_len) = result.value

\* C12 witness: process_token returned the same word twice from a line in
\* which a whitespace separates the two.
C12_Witness ==
    /\ result.op = "process_token"
    /\ Len(result.value) = 2 /\ result.value[1] = result.value[2]
    /\ \E i \in 1..Len(line) : line[i] \in Whitespace

\* C13: for 1 <= column <= length of the line, get_word_prefix returns the
\* maximal run of valid token characters ending at index column - 1, left
\* to right; it returns the empty string when that character is not valid
\* or when column is 0.
C13_WordPrefix ==
    (/\ result.op = "get_word_prefix"
     /\ result.character.hi = 0
     /\ result.character.low <= Len(line)) =>
        LET column == result.character.low IN
        /\ ~result.panic
        /\ (column >= 1) =>
              result.value = SubSeq(line, RunStartBefore(line, column), column)
        /\ (column = 0 \/ ~ValidTokenChar(line[column])) => result.value = <<>>

\* C13 witness: get_word_prefix returned two different characters of a run
\* that starts after the start of the line, with the cursor before its end.
C13_Witness ==
    /\ result.op = "get_word_prefix" /\ ~result.panic
    /\ result.character.hi = 0
    /\ result.character.low < Len(line)
    /\ Len(result.value) = 2 /\ result.value[1] # result.value[2]
    /\ RunStartBefore(line, result.character.low) > 1

\* C14 as stated: get_possible_current_word walks forward from the token
\* start only up to column; it returns exactly the non-empty prefixes of the
\* text between the token start and the cursor, and no returned string holds
\* a character at index >= column.
C14_UpToCursor ==
    (/\ result.op = "get_possible_current_word"
     /\ result.character.hi = 0
     /\ result.character.low <= Len(line)) =>
        LET column == result.character.low
            start == IF column = 0 THEN 0 ELSE RunStartBefore(line, column) - 1
        IN  /\ ~result.panic
            /\ Range(result.value)
                  = { SubSeq(line, start + 1, k) : k \in (start + 1)..column }
            /\ \A k \in 1..Len(result.value) :
                  start + Len(result.value[k]) <= column

\* C14 amended: get_possible_current_word walks forward from the token
\* start to the end of the token; it returns exactly the non-empty prefixes
\* of the text between the token start and the token end, among them every
\* non-empty prefix of the text between the token start and the cursor.
C14_ToTokenEnd ==
    (/\ result.op = "get_possible_current_word"
     /\ result.character.hi = 0
     /\ result.character.low <= Len(line)) =>
        LET column == result.character.low
            start == IF column = 0 THEN 0 ELSE RunStartBefore(line, column) - 1
            end == RunEndFrom(line, start + 1)
        IN  /\ ~result.panic
            /\ Len(result.value) = end - start
            /\ Range(result.value)
                  = { SubSeq(line, start + 1, k) : k \in (start + 1)..end }
            /\ { SubSeq(line, start + 1, k) : k \in (start + 1)..column }
                  \subseteq Range(result.value)

\* C14 witness: the cursor is inside a token, after its first character and
\* before its last, and a returned string reaches past the cursor.
C14_Witness ==
    /\ result.op = "get_possible_current_word" /\ ~result.panic
    /\ result.character.hi = 0
    /\ result.character.low >= 2 /\ result.character.low < Len(line)
    /\ ValidTokenChar(line[result.character.low - 1])
    /\ ValidTokenChar(line[result.character.low])
    /\ ValidTokenChar(line[result.character.low + 1])
    /\ \E k \in 1..Len(result.value) :
          RunStartBefore(line, result.character.low) - 1 + Len(result.value[k])
              > result.character.low

\* C15: get_possible_current_word returns, in increasing length, every
\* non-empty prefix of the whole maximal token that contains index
\* column - 1, or, when the character there is not valid, of the whole
\* maximal token that starts at index column; the result is the same for
\* every cursor column inside that token.
C15_WholeToken ==
    (/\ result.op = "get_possible_current_word"
     /\ result.character.hi = 0
     /\ result.character.low <= Len(line)) =>
        LET column == result.character.low
            first == IF column >= 1 /\ ValidTokenChar(line[column])
                     THEN RunStartBefore(line, column)
                     ELSE column + 1
            token == SubSeq(line, first, RunEndFrom(line, first))
        IN  /\ result = [result EXCEPT !.panic = FALSE,
                            !.value = [k \in 1..Len(token) |-> SubSeq(token, 1, k)]]
            /\ \A c \in first..(first + Len(token) - 1) :
                  GetPossibleCurrentWord(line, c, result.overflow_checks)
                      = Returned(result.value)

\* C15 witness: the character before the cursor is not valid and a token of
\* two characters or more starts at the cursor.
C15_Witness ==
    /\ result.op = "get_possible_current_word" /\ ~result.panic
    /\ result.character.hi = 0
    /\ result.character.low >= 1 /\ result.character.low < Len(line)
    /\ ~ValidTokenChar(line[result.character.low])
    /\ Len(result.value) >= 2
    /\ result.value[Len(result.value)][1] = line[result.character.low + 1]

\* C26: when column is greater than the number of characters of the line,
\* get_word_prefix starts at the last character: the result is that of
\* get_word_prefix(line, length of line), the trailing run of valid token
\* characters of the line.
C26_PrefixClamped ==
    (/\ result.op = "get_word_prefix"
     /\ result.character.hi = 0
     /\ result.character.low > Len(line)) =>
        /\ ~result.panic
        /\ GetWordPrefix(line, Len(line), result.overflow_checks)
              = Returned(result.value)
        /\ result.value = SubSeq(line, RunStartBefore(line, Len(line)), Len(line))

\* C26 witness: the column is beyond the end of a line that ends with a run
\* of two different valid characters after a character that is not valid.
C26_Witness ==
    /\ result.op = "get_word_prefix" /\ ~result.panic
    /\ result.character.hi = 0
    /\ result.character.low > Len(line)
    /\ Len(result.value) = 2 /\ result.value[1] # result.value[2]
    /\ Len(line) > 2
    /\ result.value[2] = line[Len(line)]

\* C35: process_token returns no empty string, for every text and every
\* min_len from 0 on; add_words of the text therefore inserts no empty word
\* and leaves the count of the root at 0.
C35_NoEmptyWord ==
    (result.op = "process_token") =>
        LET ws == ContentWords(line, result.min_len) IN
        /\ \A k \in 1..Len(result.value) : result.value[k] # <<>>
        /\ \A k \in 1..Len(ws) : ws[k] # <<>>
        /\ InsertAll(TrieNew, ws, 1)[<<>>] = 0

\* C35 witness: process_token was called with min_len 0 on a text that
\* starts with a character that is not valid and holds two such characters
\* in a row, and returned a word.
C35_Witness ==
    /\ result.op = "process_token" /\ result.min_len = 0
    /\ Len(line) >= 3
    /\ ~ValidTokenChar(line[1])
    /\ \E i \in 1..(Len(line) - 1) :
          ~ValidTokenChar(line[i]) /\ ~ValidTokenChar(line[i + 1])
    /\ Len(result.value) >= 1

\* C34: whenever get_word_prefix returns a non-empty prefix for a line and a
\* column, get_possible_current_word returns for the same line and column a
\* list that holds that prefix; words_to_completion_items then makes no item
\* of the prefix, also when the prefix is among the words found.
C34_PrefixAmongSuffixes ==
    (/\ result.op = "get_word_prefix"
     /\ ~result.panic
     /\ result.value # <<>>) =>
        LET prefix == result.value
            suffixes == GetPossibleCurrentWord(line, AsI32(result.character),
                                               result.overflow_checks)
        IN  /\ ~suffixes.panic
            /\ Contains(suffixes.value, prefix)
            /\ \A words \in { <<prefix>>, <<prefix, Append(prefix, "a")>>,
                               <<Append(prefix, "a"), prefix>> } :
                  LET items == WordsToCompletionItems(words, suffixes.value,
                                                      <<>>, "TEXT")
                  IN  /\ \A k \in 1..Len(items) : items[k].label # prefix
                      /\ Len(items) = Len(words) - 1 \/ Len(items) = Len(words) - 2

\* C34 witness: get_word_prefix returned a prefix of two characters that
\* ends before the end of its token, so the list of
\* get_possible_current_word holds it and a longer string.
C34_Witness ==
    /\ result.op = "get_word_prefix" /\ ~result.panic
    /\ result.character.hi = 0
    /\ Len(result.value) = 2
    /\ result.character.low < Len(line)
    /\ ValidTokenChar(line[result.character.low + 1])
    /\ Len(GetPossibleCurrentWord(line, AsI32(result.character),
                                  result.overflow_checks).value) >= 3

\* C19 (the part on util.rs): for every line and every column value,
\* get_word_prefix and get_possible_current_word return a value.
C19_AlwaysReturns ==
    result.op \in {"get_word_prefix", "get_possible_current_word"}
        => ~result.panic

----------------------------------------------------------------------------
(* SpecTasks: the handlers of Backend as concurrent tasks.  tower-lsp runs  *)
(* the handlers of several messages at the same time and the runtime may   *)
(* run them on several threads, so another task can run between any two    *)
(* instructions of a handler.  A lock().await that finds the Mutex held    *)
(* waits.                                                                  *)

\* the next instruction of task t
NextInstr(t) == IF tasks[t].prog = <<>> THEN Instr("idle", <<>>) ELSE tasks[t].prog[1]

\* the locks task t holds
Held(t) == { l \in Locks : locks[l] = t }

\* task t runs the handler of an edit event
IsEdit(t) == tasks[t].handler \in {"did_open", "did_change", "did_close"}

\* task t starts with handler h
Started(t, task) ==
    /\ tasks[t].prog = <<>>
    /\ hist.requests < MaxRequests
    /\ tasks' = [tasks EXCEPT ![t] = task]
    /\ hist' = [hist EXCEPT !.requests = @ + 1]
    /\ UNCHANGED <<trie, documents, min_word_len, last, before, calls, utilVars, locks>>

StartInitialize(t) ==
    Started(t, [Idle EXCEPT !.handler = "initialize", !.prog = InitializeProg])

StartDidOpen(t, uri, text) ==
    Started(t, [Idle EXCEPT !.handler = "did_open", !.uri = uri,
                            !.texts = <<text>>,
                            !.prog = DidOpenProg(uri, text, min_word_len)])

StartDidClose(t, uri) ==
    Started(t, [Idle EXCEPT !.handler = "did_close", !.uri = uri,
                            !.prog = EditProg])

StartDidChange(t, uri, changes) ==
    Started(t, [Idle EXCEPT !.handler = "did_change", !.uri = uri,
                            !.texts = changes, !.prog = EditProg])

StartCompletion(t, uri, line_no, character) ==
    Started(t, [Idle EXCEPT !.handler = "completion", !.uri = uri,
                            !.line_no = line_no, !.character = character,
                            !.prog = CompletionProg])

\* the rest of task t after its next instruction
Advance(t) == [tasks EXCEPT ![t].prog = Tail(@)]

\* Mutex::lock().await returns: the Mutex was free
Acquire(t) ==
    /\ NextInstr(t).op = "lock"
    /\ locks[NextInstr(t).arg] = NoTask
    /\ locks' = [locks EXCEPT ![NextInstr(t).arg] = t]
    /\ tasks' = Advance(t)
    /\ hist' = [hist EXCEPT
                   !.edges = @ \cup { <<h, NextInstr(t).arg>> : h \in Held(t) },
                   !.order = IF NextInstr(t).arg = "documents" /\ IsEdit(t)
                             THEN Append(@, [handler |-> tasks[t].handler,
                                             uri |-> tasks[t].uri,
                                             texts |-> tasks[t].texts])
                             ELSE @]
    /\ UNCHANGED <<trie, documents, min_word_len, last, before, calls, utilVars>>

\* the guard of a Mutex is dropped
Release(t) ==
    /\ NextInstr(t).op = "unlock"
    /\ locks' = [locks EXCEPT ![NextInstr(t).arg] = NoTask]
    /\ tasks' = Advance(t)
    /\ hist' = IF NextInstr(t).arg = "trie" THEN [hist EXCEPT !.committed = trie]
               ELSE IF NextInstr(t).arg = "documents" /\ tasks[t].handler = "did_change"
                    THEN [hist EXCEPT !.change = NoChange]
                    ELSE hist
    /\ UNCHANGED <<trie, documents, min_word_len, last, before, calls, utilVars>>

\* did_close, did_change: if let Some(content) = document_lock.get(&uri)
Branch(t) ==
    /\ NextInstr(t).op = "branch"
    /\ tasks' = [tasks EXCEPT ![t].prog =
                    IF tasks[t].handler = "did_close"
                    THEN DidCloseBody(documents, tasks[t].uri, min_word_len)
                    ELSE DidChangeBody(documents, tasks[t].uri, tasks[t].texts,
                                       min_word_len)]
    /\ hist' = IF tasks[t].handler = "did_change"
               THEN [hist EXCEPT !.change =
                        [active |-> TRUE, pre |-> trie, docs |-> documents,
                         uri |-> tasks[t].uri, texts |-> tasks[t].texts]]
               ELSE hist
    /\ UNCHANGED <<trie, documents, min_word_len, last, before, calls, utilVars,
                   locks>>

\* document_lock.insert, *content = last_change.text
PutDocument(t) ==
    /\ NextInstr(t).op = "put"
    /\ documents' = DocInsert(documents, NextInstr(t).arg[1], NextInstr(t).arg[2])
    /\ tasks' = Advance(t)
    /\ UNCHANGED <<trie, min_word_len, last, before, calls, utilVars, locks, hist>>

\* document_lock.remove
DropDocument(t) ==
    /\ NextInstr(t).op = "drop"
    /\ documents' = DocRemove(documents, NextInstr(t).arg)
    /\ tasks' = Advance(t)
    /\ UNCHANGED <<trie, min_word_len, last, before, calls, utilVars, locks, hist>>

\* trie_lock.insert(&w)
InsertWord(t) ==
    /\ NextInstr(t).op = "insert"
    /\ trie' = Insert(trie, NextInstr(t).arg)
    /\ tasks' = Advance(t)
    /\ hist' = [hist EXCEPT !.unlocked = @ \/ locks["trie"] # t]
    /\ UNCHANGED <<documents, min_word_len, last, before, calls, utilVars, locks>>

\* trie_lock.remove(&w)
RemoveWord(t) ==
    /\ NextInstr(t).op = "remove"
    /\ trie' = Remove(trie, NextInstr(t).arg)
    /\ tasks' = Advance(t)
    /\ hist' = [hist EXCEPT !.unlocked = @ \/ locks["trie"] # t]
    /\ UNCHANGED <<documents, min_word_len, last, before, calls, utilVars, locks>>

\* get_current_line: the read of documents; on None completion has only
\* the guard of documents left to drop
GetLine(t) ==
    LET cl == GetCurrentLine(documents, tasks[t].uri, tasks[t].line_no) IN
    /\ NextInstr(t).op = "get_line"
    /\ tasks' = [tasks EXCEPT ![t].current_line = cl.value,
                              ![t].prog = IF cl.some THEN Tail(@)
                                          ELSE <<Instr("unlock", "documents")>>]
    /\ UNCHANGED <<trie, documents, min_word_len, last, before, calls, utilVars,
                   locks, hist>>

\* trie_lock.suggest_completions(&prefix) and the items made of its words
Suggest(t) ==
    LET column == tasks[t].character
        prefix == GetWordPrefix(tasks[t].current_line, column, FALSE).value
        suffixes == GetPossibleCurrentWord(tasks[t].current_line, column, FALSE).value
    IN
    /\ NextInstr(t).op = "suggest"
    /\ result' = [NoResult EXCEPT !.op = "completion", !.uri = tasks[t].uri,
                                  !.line_no = tasks[t].line_no,
                                  !.character = [hi |-> 0, low |-> column],
                                  !.value = WordsToCompletionItems(
                                      SuggestCompletions(trie, prefix), suffixes,
                                      <<>>, "TEXT")]
    /\ tasks' = Advance(t)
    /\ hist' = [hist EXCEPT !.unlocked = @ \/ locks["trie"] # t,
                            !.suggests = @ + 1,
                            !.seen = trie, !.seen_committed = hist.committed,
                            !.during = hist.change]
    /\ UNCHANGED <<trie, documents, min_word_len, last, before, calls, line, locks>>

NextTasks ==
    \/ \E t \in Tasks : StartInitialize(t)
    \/ \E t \in Tasks, uri \in TaskDocIds, text \in TaskTexts : StartDidOpen(t, uri, text)
    \/ \E t \in Tasks, uri \in TaskDocIds : StartDidClose(t, uri)
    \/ \E t \in Tasks, uri \in TaskDocIds, changes \in TaskFragLists :
           StartDidChange(t, uri, changes)
    \/ \E t \in Tasks, uri \in TaskDocIds, character \in TaskColumns :
           StartCompletion(t, uri, 0, character)
    \/ \E t \in Tasks : Acquire(t)
    \/ \E t \in Tasks : Release(t)
    \/ \E t \in Tasks : Branch(t)
    \/ \E t \in Tasks : PutDocument(t)
    \/ \E t \in Tasks : DropDocument(t)
    \/ \E t \in Tasks : InsertWord(t)
    \/ \E t \in Tasks : RemoveWord(t)
    \/ \E t \in Tasks : GetLine(t)
    \/ \E t \in Tasks : Suggest(t)

SpecTasks == Init /\ [][NextTasks]_vars

\* a step of the handler that task t runs
Step(t) ==
    \/ Acquire(t) \/ Release(t) \/ Branch(t) \/ PutDocument(t) \/ DropDocument(t)
    \/ InsertWord(t) \/ RemoveWord(t) \/ GetLine(t) \/ Suggest(t)

\* a request arrives while fewer than MaxFairRequests have
MayStart == hist.requests < MaxFairRequests

InitFair == Init /\ min_word_len = DefaultMinWordLen

NextFair ==
    \/ \E t \in Tasks : MayStart /\ StartInitialize(t)
    \/ \E t \in Tasks, uri \in TaskDocIds, text \in FairTexts :
           MayStart /\ StartDidOpen(t, uri, text)
    \/ \E t \in Tasks, uri \in TaskDocIds : MayStart /\ StartDidClose(t, uri)
    \/ \E t \in Tasks, uri \in TaskDocIds, changes \in FairFragLists :
           MayStart /\ StartDidChange(t, uri, changes)
    \/ \E t \in Tasks, uri \in TaskDocIds, character \in FairColumns :
           MayStart /\ StartCompletion(t, uri, 0, character)
    \/ \E t \in Tasks : Step(t)

\* the runtime polls every task that can run, and a Mutex that is released
\* wakes a task that waits for it
FairSpecTasks == InitFair /\ [][NextFair]_vars /\ \A t \in Tasks : WF_vars(Step(t))

----------------------------------------------------------------------------
(* Properties of the locking, under SpecTasks *)

\* <<h, l>>: a task that holds h waits for l
Waits ==
    { <<locks_held[1], NextInstr(locks_held[2]).arg>> :
        locks_held \in { p \in Locks \X Tasks :
                            NextInstr(p[2]).op = "lock" /\ locks[p[1]] = p[2] } }

\* the lock-acquisition graph: the acquisitions made and the ones waited for
LockGraph == hist.edges \cup Waits

Compose(R, S) ==
    { p \in Locks \X Locks : \E b \in Locks : <<p[1], b>> \in R /\ <<b, p[2]>> \in S }

\* the pairs joined by a path of one to four edges of R
Paths(R) ==
    LET R2 == R \cup Compose(R, R)
    IN  R2 \cup Compose(R2, R2)

\* C17: locks are acquired in the order documents before trie: no task
\* tries to acquire the documents lock while it holds the trie lock, and the
\* lock-acquisition graph over documents, trie, tmux_source and snippets has
\* no cycle.
C17_LockOrder ==
    /\ \A t \in Tasks :
          NextInstr(t) = Instr("lock", "documents") => locks["trie"] # t
    /\ <<"trie", "documents">> \notin LockGraph
    /\ \A l \in Locks : <<l, l>> \notin Paths(LockGraph)

\* C17 witness: an edit handler and a completion have run, every nested
\* acquisition of the handlers has been made, and two tasks hold locks at
\* the same time.
C17_Witness ==
    /\ { <<"documents", "trie">>, <<"documents", "tmux_source">>,
         <<"trie", "tmux_source">>, <<"trie", "snippets">> } \subseteq hist.edges
    /\ \A t \in Tasks : Held(t) # {}

\* C18: every insert, remove and suggest of the trie is made with the trie
\* lock held, at most one task is at a call on the trie at a time, and a
\* suggest of a completion reads exactly the trie that the last release of
\* the trie lock left, never a partially applied batch.
C18_TrieSerialized ==
    /\ ~hist.unlocked
    /\ Cardinality({ t \in Tasks :
                       NextInstr(t).op \in {"insert", "remove", "suggest"} }) <= 1
    /\ hist.seen = hist.seen_committed

\* C18 witness: a completion has read a trie that holds words and still
\* holds the trie lock, while an edit handler, whose batch the completion
\* has read, is still running.
C18_Witness ==
    \E t1 \in Tasks, t2 \in Tasks :
        /\ t1 # t2
        /\ tasks[t2].handler = "completion" /\ locks["trie"] = t2
        /\ hist.suggests >= 1
        /\ hist.seen = trie /\ Indexed(trie) > 0
        /\ result.op = "completion" /\ result.value # <<>>
        /\ locks["documents"] = t1
        /\ tasks[t1].handler \in {"did_open", "did_change"}

\* each task of a non-empty set of tasks waits for a lock that a task of the
\* set holds
CircularWait ==
    \E S \in SUBSET Tasks :
        /\ S # {}
        /\ \A t \in S : /\ NextInstr(t).op = "lock"
                         /\ locks[NextInstr(t).arg] \in S

\* C25: under fair scheduling every handler that starts completes and has
\* then released every lock it acquired; no set of handlers waits for each
\* other for ever.
C25_HandlersComplete ==
    /\ \A t \in Tasks :
          (tasks[t].prog # <<>>) ~> (tasks[t].prog = <<>> /\ Held(t) = {})
    /\ [](~CircularWait /\ \A t \in Tasks : tasks[t].prog = <<>> => Held(t) = {})

\* C25 witness: a task that holds a lock waits for a second lock, which
\* another task holds.
C25_Witness ==
    \E t1 \in Tasks, t2 \in Tasks :
        /\ t1 # t2
        /\ Held(t1) # {}
        /\ NextInstr(t1).op = "lock"
        /\ locks[NextInstr(t1).arg] = t2

\* C29: a completion that runs at the same time as a did_change never reads
\* the trie from which the tokens of the old content are removed and into
\* which the tokens of the new content are not yet inserted: its suggest
\* reads the trie of before the change or the trie of after it.
C29_NoTornRead ==
    LET c == hist.during IN
    c.active =>
        \/ hist.seen = c.pre
        \/ hist.seen = ChangeResult(c.pre, c.docs, c.uri, c.texts, min_word_len).trie

RECURSIVE Replay(_, _, _, _)
\* the trie and the documents that the handlers of the events of order give
\* when each runs to its end before the next starts
Replay(order, i, t, docs) ==
    IF i > Len(order) THEN [trie |-> t, documents |-> docs]
    ELSE LET e == order[i]
             r == IF e.handler = "did_open"
                  THEN OpenResult(t, docs, e.uri, e.texts[1], min_word_len)
                  ELSE IF e.handler = "did_close"
                       THEN CloseResult(t, docs, e.uri, min_word_len)
                       ELSE ChangeResult(t, docs, e.uri, e.texts, min_word_len)
         IN  Replay(order, i + 1, r.trie, r.documents)

\* C30: the edit handlers hold the documents lock from their first step to
\* their last, so the trie mutations and store updates of two edit events
\* never interleave, and the trie and the DocumentStore after the events are
\* those of running the events one after another in some order.
C30_EditsSerialized ==
    /\ \A t \in Tasks :
          (IsEdit(t) /\ tasks[t].prog # <<>>
                     /\ NextInstr(t) # Instr("lock", "documents"))
              => locks["documents"] = t
    /\ \A t \in Tasks :
          NextInstr(t).op \in {"insert", "remove", "put", "drop"}
              => locks["documents"] = t
    /\ (\A t \in Tasks : IsEdit(t) => locks["documents"] # t) =>
          [trie |-> trie, documents |-> documents]
              = Replay(hist.order, 1, TrieNew, NoDocuments)

\* C30 witness: an edit event has run to its end, and an edit handler waits
\* for the documents lock that another holds in the middle of its batch.
C30_Witness ==
    \E t1 \in Tasks, t2 \in Tasks :
        /\ t1 # t2
        /\ IsEdit(t1) /\ IsEdit(t2)
        /\ NextInstr(t1) = Instr("lock", "documents")
        /\ locks["documents"] = t2 /\ locks["trie"] = t2
        /\ NextInstr(t2).op \in {"insert", "remove"}
        /\ trie # hist.committed
        /\ Len(hist.order) = 2

----------------------------------------------------------------------------
(* Properties of the index as a whole, under Spec *)

\* C31: whenever the DocumentStore is empty the trie is empty: the root has
\* no children and suggest_completions returns nothing for every prefix.
C31_EmptyStoreEmptyTrie ==
    documents = NoDocuments =>
        /\ Children(trie, <<>>) = {}
        /\ \A p \in Queries \cup {<<>>} : SuggestCompletions(trie, p) = <<>>

\* C32: every token of the stored content of every Open document has a count
\* above 0 and is returned by suggest_completions for each of its prefixes.
C32_OpenWordsSuggestible ==
    \A d \in DOMAIN documents :
        \A w \in TokensOf(documents[d]) :
            Count(trie, w) > 0 /\ Suggestible(trie, w)

\* C33: did_change on an Open document with an empty list of fragments
\* leaves the stored content of the document and every trie count unchanged.
C33_EmptyChangeNoop ==
    [][ (last'.op = "did_change" /\ last'.known /\ last'.texts = <<>>) =>
            /\ documents'[last'.uri] = documents[last'.uri]
            /\ \A w \in AllTextWords \cup DOMAIN trie \cup DOMAIN trie' :
                  Count(trie', w) = Count(trie, w)
      ]_vars

====
